---------------------------- MODULE Spec2Model ----------------------------
(***************************************************************************)
(* Smart Task Analyzer: the TaskScorer of tasks/scoring.py and the request *)
(* handlers of tasks/views.py.                                             *)
(*                                                                         *)
(* Numbers.  Python floats are modelled in fixed point: a finite number x  *)
(* is the integer x * Scale.  The input sets are chosen on a grid on which *)
(* every division of the code is exact, so the arithmetic below is the     *)
(* exact real arithmetic of the code.  round(x, 2) is exact too except on  *)
(* a tie (x exactly halfway between two hundredths), where the binary      *)
(* representation error of the float decides; a tie is therefore modelled  *)
(* as a choice between both neighbours.                                    *)
(***************************************************************************)
EXTENDS Integers, Sequences, FiniteSets, TLC

\* ------------------------------------------------------------------ bounds
\* Due dates range over the years today.y - YearSpan .. today.y + YearSpan.
YearSpan == 1

\* Direct calls of calculate_dependency_score see lists of up to MaxFanIn tasks.
MaxFanIn == 5

\* detect_circular_dependencies sees lists of up to MaxTasks tasks with up to
\* MaxEdges declared dependencies in all, and rings of up to MaxRing tasks in
\* every order.
MaxTasks == 3
MaxEdges == 4
MaxRing == 4

\* The handlers see lists of up to MaxRaw entries of any shape, and lists of up
\* to MaxRanked well-formed tasks to rank.
MaxRaw == 2
MaxRanked == 3

\* One hundredth is Cent units; Scale units are 1.0.
Cent == 6 * 10
Scale == 100 * Cent

VARIABLES
    strategy,   \* TaskScorer.strategy
    weights,    \* TaskScorer.weights (hundredths)
    today,      \* date.today(), as <<year, month, day>>
    call        \* the operation in progress or just returned: [op, args.., ret]

vars == <<strategy, weights, today, call>>

\* --------------------------------------------------------- Python values
\* Every Python value is a record tagged by its type in field k.
None == [k |-> "None"]
PyInt(n) == [k |-> "int", n |-> n]          \* an int (identifiers, small numbers)
Num(v) == [k |-> "num", v |-> v]          \* a finite float, v = x * Scale
Str(s) == [k |-> "str", s |-> s]
HugeInt == [k |-> "hugeint"]              \* an int beyond the range of float, e.g. 10**400
NaN == [k |-> "nan"]
PosInf == [k |-> "inf"]
NegInf == [k |-> "ninf"]
PyTrue == [k |-> "bool", b |-> TRUE]
List(items) == [k |-> "list", items |-> items]
Dict(d) == [k |-> "dict", d |-> d]        \* d: a function from keys (strings) to values
Date(y, m, d) == [k |-> "date", y |-> y, m |-> m, d |-> d]   \* a datetime.date
DateTime == [k |-> "datetime"]            \* a datetime.datetime
\* The text "YYYY-MM-DD" written from the three numbers (zero padded), which
\* need not form a calendar date.
DateStr(y, m, d) == [k |-> "datestr", y |-> y, m |-> m, d |-> d]

IsDict(x) == x.k = "dict"
IsList(x) == x.k = "list"
IsStr(x) == x.k \in {"str", "datestr"}
\* hash(x) succeeds: lists and dicts are unhashable.
Hashable(x) == x.k \notin {"list", "dict"}

\* dict.get(key, default)
Get(t, key, default) == IF key \in DOMAIN t.d THEN t.d[key] ELSE default

Ret(v) == [raised |-> FALSE, val |-> v]
Raise(e) == [raised |-> TRUE, exc |-> e]

\* float(s) for the strings of the model: Python strips white space, reads
\* "nan"/"inf"/"-inf", and raises ValueError on anything else that is no number.
StrToFloat(s) ==
    CASE s = "7" -> Ret(Num(7 * Scale))
      [] s = " 7 " -> Ret(Num(7 * Scale))
      [] s = "2.5" -> Ret(Num((5 * Scale) \div 2))
      [] s = "-1" -> Ret(Num(-Scale))
      [] s = "nan" -> Ret(NaN)
      [] s = "inf" -> Ret(PosInf)
      [] s = "-inf" -> Ret(NegInf)
      [] s = "1e400" -> Ret(PosInf)
      [] OTHER -> Raise("ValueError")

\* float(x): the conversion at the head of the importance and effort scores.
ToFloat(x) ==
    CASE x.k = "num" -> Ret(x)
      [] x.k \in {"nan", "inf", "ninf"} -> Ret(x)
      [] x.k = "int" -> Ret(Num(x.n * Scale))
      [] x.k = "bool" -> Ret(Num(IF x.b THEN Scale ELSE 0))
      [] x.k = "str" -> StrToFloat(x.s)
      [] x.k = "datestr" -> Raise("ValueError")
      [] x.k = "hugeint" -> Raise("OverflowError")
      [] OTHER -> Raise("TypeError")

\* a < b and a <= b on floats, b finite: every comparison with NaN is false.
FLt(a, b) ==
    CASE a.k = "num" -> a.v < b
      [] a.k = "ninf" -> TRUE
      [] OTHER -> FALSE
FLe(a, b) ==
    CASE a.k = "num" -> a.v <= b
      [] a.k = "ninf" -> TRUE
      [] OTHER -> FALSE
FGt(a, b) ==
    CASE a.k = "num" -> a.v > b
      [] a.k = "inf" -> TRUE
      [] OTHER -> FALSE

\* Python's min(c, x) and max(c, x) with a finite first argument c: the first
\* argument is kept unless the second is strictly smaller (greater).
PyMin(c, x) == IF FLt(x, c) THEN x ELSE Num(c)
PyMax(c, x) == IF FGt(x, c) THEN x ELSE Num(c)

\* ---------------------------------------------------------------- dates
IsLeap(y) == (y % 4 = 0) /\ ((y % 100 # 0) \/ (y % 400 = 0))

DaysInMonth(y, m) ==
    CASE m = 2 -> IF IsLeap(y) THEN 29 ELSE 28
      [] m \in {4, 6, 9, 11} -> 30
      [] OTHER -> 31

RECURSIVE DaysBeforeMonth(_, _)
DaysBeforeMonth(y, m) ==
    IF m <= 1 THEN 0 ELSE DaysBeforeMonth(y, m - 1) + DaysInMonth(y, m - 1)

\* date.toordinal(): the day number in the proleptic Gregorian calendar.
Ordinal(y, m, d) ==
    LET p == y - 1
    IN  p * 365 + (p \div 4) - (p \div 100) + (p \div 400) + DaysBeforeMonth(y, m) + d

IsCalendarDate(y, m, d) ==
    /\ y \in 1..9999
    /\ m \in 1..12
    /\ d \in 1..DaysInMonth(y, m)

\* datetime.strptime(text, '%Y-%m-%d').date(): ValueError unless the text is a
\* calendar date in that format.
Strptime(x) ==
    IF x.k = "datestr" /\ IsCalendarDate(x.y, x.m, x.d)
    THEN Ret(Date(x.y, x.m, x.d))
    ELSE Raise("ValueError")

\* (due_date - today).days: TypeError unless due_date is a date.
DaysUntil(due, now) ==
    IF due.k = "date"
    THEN Ret(Ordinal(due.y, due.m, due.d) - Ordinal(now[1], now[2], now[3]))
    ELSE Raise("TypeError")

\* ------------------------------------------------------------ TaskScorer
\* The strategies table of _get_weights, in hundredths.
strategies ==
    [smart_balance |-> [urgency |-> 35, importance |-> 30, effort |-> 10, dependencies |-> 25],
     fastest_wins |-> [urgency |-> 20, importance |-> 20, effort |-> 50, dependencies |-> 10],
     high_impact |-> [urgency |-> 15, importance |-> 60, effort |-> 5, dependencies |-> 20],
     deadline_driven |-> [urgency |-> 70, importance |-> 15, effort |-> 5, dependencies |-> 10]]

\* Mutant: the fallback row is not smart_balance.
get_weights_wrong_default(s) ==
    IF s \in DOMAIN strategies THEN strategies[s] ELSE strategies["fastest_wins"]

\* strategies.get(strategy, strategies['smart_balance'])
_get_weights(s) ==
    IF s \in DOMAIN strategies THEN strategies[s] ELSE strategies["smart_balance"]

\* Mutant: the overdue branch without its cap at 10.
UrgencyOfDays_uncapped(days_until) ==
    IF days_until < 0 THEN 10 * Scale + (-days_until) * (Scale \div 10)
    ELSE IF days_until = 0 THEN (19 * Scale) \div 2
    ELSE IF days_until = 1 THEN 9 * Scale
    ELSE IF days_until <= 3 THEN 8 * Scale
    ELSE IF days_until <= 7 THEN 6 * Scale
    ELSE IF days_until <= 14 THEN 4 * Scale
    ELSE IF days_until <= 30 THEN 2 * Scale
    ELSE LET less == 2 * Scale - ((days_until - 30) * Scale) \div 30
         IN  IF less > 0 THEN less ELSE 0

\* Mutant: the breakpoints compared with < instead of <=.
UrgencyOfDays_strict(days_until) ==
    IF days_until < 0 THEN 10 * Scale
    ELSE IF days_until = 0 THEN (19 * Scale) \div 2
    ELSE IF days_until = 1 THEN 9 * Scale
    ELSE IF days_until < 3 THEN 8 * Scale
    ELSE IF days_until < 7 THEN 6 * Scale
    ELSE IF days_until < 14 THEN 4 * Scale
    ELSE IF days_until < 30 THEN 2 * Scale
    ELSE LET less == 2 * Scale - ((days_until - 30) * Scale) \div 30
         IN  IF less > 0 THEN less ELSE 0

\* The breakpoints of calculate_urgency_score on days_until.
UrgencyOfDays(days_until) ==
    IF days_until < 0
    THEN LET more == 10 * Scale + (-days_until) * (Scale \div 10)
         IN  IF more < 10 * Scale THEN more ELSE 10 * Scale
    ELSE IF days_until = 0 THEN (19 * Scale) \div 2
    ELSE IF days_until = 1 THEN 9 * Scale
    ELSE IF days_until <= 3 THEN 8 * Scale
    ELSE IF days_until <= 7 THEN 6 * Scale
    ELSE IF days_until <= 14 THEN 4 * Scale
    ELSE IF days_until <= 30 THEN 2 * Scale
    ELSE LET less == 2 * Scale - ((days_until - 30) * Scale) \div 30
         IN  IF less > 0 THEN less ELSE 0

calculate_urgency_score(due_date, now) ==
    LET parsed == IF IsStr(due_date) THEN Strptime(due_date) ELSE Ret(due_date)
        days == IF parsed.raised THEN parsed ELSE DaysUntil(parsed.val, now)
    IN  IF days.raised
        THEN Ret(5 * Scale)        \* except (ValueError, TypeError, AttributeError)
        ELSE Ret(UrgencyOfDays(days.val))

calculate_importance_score(importance) ==
    LET f == ToFloat(importance)
    IN  IF f.raised
        THEN IF f.exc \in {"ValueError", "TypeError"} THEN Ret(5 * Scale) ELSE f
        ELSE Ret(PyMax(Scale, PyMin(10 * Scale, f.val)).v)

\* The effort brackets, on the float hours.
EffortOfHours(h) ==
    LET hours == IF FLt(h, 0) THEN Num(0) ELSE h
    IN  IF FLe(hours, Scale \div 2) THEN 10 * Scale
        ELSE IF FLe(hours, Scale) THEN 9 * Scale
        ELSE IF FLe(hours, 2 * Scale) THEN 8 * Scale
        ELSE IF FLe(hours, 4 * Scale) THEN 6 * Scale
        ELSE IF FLe(hours, 8 * Scale) THEN 4 * Scale
        ELSE IF FLe(hours, 16 * Scale) THEN 2 * Scale
        ELSE LET less == CASE hours.k = "num" -> Num(2 * Scale - (hours.v - 16 * Scale) \div 8)
                           [] hours.k = "inf" -> NegInf
                           [] OTHER -> NaN
             IN  PyMax(0, less).v

calculate_effort_score(estimated_hours) ==
    LET f == ToFloat(estimated_hours)
    IN  IF f.raised
        THEN IF f.exc \in {"ValueError", "TypeError"} THEN Ret(5 * Scale) ELSE f
        ELSE Ret(EffortOfHours(f.val))


\* task_id in dependencies: a list is searched with ==; a value that is no
\* container (None, a number) raises TypeError.  (The inputs hold no dict or
\* str as a dependencies value in a direct call.)
PyIn(x, container) ==
    IF IsList(container)
    THEN Ret(\E i \in 1..Len(container.items) : container.items[i] = x)
    ELSE Raise("TypeError")

\* The counting loop of calculate_dependency_score over all_tasks[1..n].
RECURSIVE DependentCount(_, _, _)
DependentCount(task_id, all_tasks, n) ==
    IF n = 0 THEN Ret(0)
    ELSE LET before == DependentCount(task_id, all_tasks, n - 1)
             task == all_tasks[n]
         IN  IF before.raised THEN before
             ELSE IF ~IsDict(task) THEN Raise("AttributeError")
             ELSE LET found == PyIn(task_id, Get(task, "dependencies", List(<<>>)))
                  IN  IF found.raised THEN found
                      ELSE Ret(before.val + (IF found.val THEN 1 ELSE 0))

\* The score of a number of dependents.
DependencyOfCount(dependent_count) ==
    IF dependent_count = 0 THEN 0
    ELSE IF dependent_count = 1 THEN 4 * Scale
    ELSE IF dependent_count = 2 THEN 7 * Scale
    ELSE LET more == 7 * Scale + (dependent_count - 2) * ((3 * Scale) \div 2)
         IN  IF more < 10 * Scale THEN more ELSE 10 * Scale

calculate_dependency_score(task_id, all_tasks) ==
    LET c == DependentCount(task_id, all_tasks, Len(all_tasks))
    IN  IF c.raised THEN Ret(0)       \* except Exception
        ELSE Ret(DependencyOfCount(c.val))

\* round(x / den, 2) for the exact number x / den hundredths-units: the
\* nearest hundredth, either neighbour on a tie.  The result counts hundredths.
Round2(x, den) ==
    LET lo == x \div den
        r == x % den
    IN  IF 2 * r < den THEN {lo}
        ELSE IF 2 * r > den THEN {lo + 1}
        ELSE {lo, lo + 1}

\* Mutant: the importance and effort weights exchanged.
FinalScore_swapped(w, urgency, importance, effort, dependencies) ==
    w.urgency * urgency + w.effort * importance
        + w.importance * effort + w.dependencies * dependencies

\* The weighted final score of score_task, in units of 1 / (100 * Scale).
FinalScore(w, urgency, importance, effort, dependencies) ==
    w.urgency * urgency + w.importance * importance
        + w.effort * effort + w.dependencies * dependencies

\* The result of the except branch of score_task.
ErrorResult(e) ==
    [score |-> 0,
     components |-> [urgency |-> 0, importance |-> 0, effort |-> 0, dependencies |-> 0],
     error |-> e]

\* score_task(task, all_tasks): the results it can return (one, or several
\* when a rounding falls on a tie).  Scores are in Scale units.
score_task(w, now, task, all_tasks) ==
    IF ~IsDict(task) THEN {ErrorResult("AttributeError")}
    ELSE
    LET urgency == calculate_urgency_score(Get(task, "due_date", None), now)
        importance == calculate_importance_score(Get(task, "importance", None))
        effort == calculate_effort_score(Get(task, "estimated_hours", None))
        dependencies ==
            calculate_dependency_score(Get(task, "id", Get(task, "title", None)), all_tasks)
    IN  IF importance.raised THEN {ErrorResult(importance.exc)}
        ELSE IF effort.raised THEN {ErrorResult(effort.exc)}
        ELSE LET final_score ==
                     FinalScore(w, urgency.val, importance.val, effort.val, dependencies.val)
             IN  { [score |-> s * Cent,
                    components |-> [urgency |-> u * Cent, importance |-> i * Cent,
                                    effort |-> e * Cent, dependencies |-> d * Cent]] :
                   <<s, u, i, e, d>> \in Round2(final_score, 100 * Cent)
                       \X Round2(urgency.val, Cent) \X Round2(importance.val, Cent)
                       \X Round2(effort.val, Cent) \X Round2(dependencies.val, Cent) }

\* ------------------------------------------- detect_circular_dependencies
\* task.get('id', task.get('title'))
TaskId(task) == Get(task, "id", Get(task, "title", None))

\* The adjacency dict built from tasks[1..n]: a later task with the same
\* identifier replaces an earlier one.
BuildGraph(tasks) ==
    LET keys == {TaskId(tasks[n]) : n \in 1..Len(tasks)}
        last(key) == CHOOSE n \in 1..Len(tasks) :
                        /\ TaskId(tasks[n]) = key
                        /\ \A m \in (n + 1)..Len(tasks) : TaskId(tasks[m]) # key
    IN  [key \in keys |-> Get(tasks[last(key)], "dependencies", List(<<>>))]

\* graph.get(node, [])
Neighbors(graph, node) == IF node \in DOMAIN graph THEN graph[node] ELSE List(<<>>)

\* path.index(neighbor): the first position of neighbor in path, 0 if absent.
Index(path, neighbor) ==
    IF \E i \in 1..Len(path) : path[i] = neighbor
    THEN CHOOSE i \in 1..Len(path) :
            /\ path[i] = neighbor
            /\ \A j \in 1..(i - 1) : path[j] # neighbor
    ELSE 0

\* Mutant: the cycle holds only the two ends of the back edge.
CycleOf_endpoints(path, neighbor) == {path[Len(path)], neighbor}

\* Mutant: the cycle is taken from the start of the path, not from cycle_start.
CycleOf_wholepath(path, neighbor) == {path[i] : i \in 1..Len(path)} \cup {neighbor}

\* set(path[cycle_start:] + [neighbor])
CycleOf(path, neighbor) ==
    {path[i] : i \in Index(path, neighbor)..Len(path)} \cup {neighbor}

\* Mutant: every cycle found is appended.
RecordCycle_always(cycles, cycle) == Append(cycles, cycle)

\* if cycle not in cycles: cycles.append(cycle)
RecordCycle(cycles, cycle) ==
    IF \E i \in 1..Len(cycles) : cycles[i] = cycle THEN cycles ELSE Append(cycles, cycle)

\* Mutant: an edge from a node to itself is not taken as a back edge.
OnStack_noself(neighbor, node, rec_stack) == neighbor \in rec_stack /\ neighbor # node

\* elif neighbor in rec_stack  (node is the node whose edge is followed)
OnStack(neighbor, node, rec_stack) == neighbor \in rec_stack

\* The state of one run: the three collections of the function, the exception
\* that ended it ("" while none), and the log of the nodes dfs was entered with.
DfsStart == [visited |-> {}, rec_stack |-> {}, cycles |-> <<>>, raised |-> "", entered |-> <<>>]

RECURSIVE Dfs(_, _, _, _), DfsLoop(_, _, _, _, _, _)

\* Mutant: dfs returns without rec_stack.remove(node).
Dfs_noremove(graph, node, path, st) ==
    IF ~Hashable(node) THEN [st EXCEPT !.raised = "TypeError"]
    ELSE
    LET mine == Append(path, node)
        st1 == [st EXCEPT !.visited = @ \cup {node}, !.rec_stack = @ \cup {node},
                          !.entered = Append(@, node)]
        deps == Neighbors(graph, node)
    IN  IF ~IsList(deps) THEN [st1 EXCEPT !.raised = "TypeError"]
        ELSE DfsLoop(graph, node, mine, deps.items, 1, st1)

\* dfs(node, path): path is the caller's list (the callee appends to its copy).
Dfs(graph, node, path, st) ==
    IF ~Hashable(node) THEN [st EXCEPT !.raised = "TypeError"]   \* visited.add(node)
    ELSE
    LET mine == Append(path, node)
        st1 == [st EXCEPT !.visited = @ \cup {node}, !.rec_stack = @ \cup {node},
                          !.entered = Append(@, node)]
        deps == Neighbors(graph, node)
    IN  IF ~IsList(deps) THEN [st1 EXCEPT !.raised = "TypeError"]   \* for .. in a non-iterable
        ELSE LET st2 == DfsLoop(graph, node, mine, deps.items, 1, st1)
             IN  IF st2.raised # "" THEN st2
                 ELSE IF node \notin st2.rec_stack THEN [st2 EXCEPT !.raised = "KeyError"]
                 ELSE [st2 EXCEPT !.rec_stack = @ \ {node}]

\* The for loop of dfs from the i-th neighbor on.
DfsLoop(graph, node, path, items, i, st) ==
    IF st.raised # "" \/ i > Len(items) THEN st
    ELSE LET neighbor == items[i]
         IN  IF ~Hashable(neighbor) THEN [st EXCEPT !.raised = "TypeError"]
             ELSE IF neighbor \notin st.visited
             THEN DfsLoop(graph, node, path, items, i + 1, Dfs(graph, neighbor, path, st))
             ELSE IF OnStack(neighbor, node, st.rec_stack)
             THEN IF Index(path, neighbor) = 0 THEN [st EXCEPT !.raised = "ValueError"]
                  ELSE DfsLoop(graph, node, path, items, i + 1,
                               [st EXCEPT !.cycles = RecordCycle(@, CycleOf(path, neighbor))])
             ELSE DfsLoop(graph, node, path, items, i + 1, st)

\* "for task in tasks: if task_id not in visited: dfs(task_id, [])" from tasks[n] on.
RECURSIVE CheckAll(_, _, _, _)
CheckAll(graph, tasks, n, st) ==
    IF st.raised # "" \/ n > Len(tasks) THEN st
    ELSE IF TaskId(tasks[n]) \in st.visited THEN CheckAll(graph, tasks, n + 1, st)
    ELSE CheckAll(graph, tasks, n + 1, Dfs(graph, TaskId(tasks[n]), <<>>, st))

\* One run of detect_circular_dependencies: its final state.
DetectRun(tasks) ==
    IF \E n \in 1..Len(tasks) : ~IsDict(tasks[n])
    THEN [DfsStart EXCEPT !.raised = "AttributeError"]    \* task.get on a non-dict
    ELSE IF \E n \in 1..Len(tasks) : ~Hashable(TaskId(tasks[n]))
    THEN [DfsStart EXCEPT !.raised = "TypeError"]         \* graph[task_id] = ..
    ELSE CheckAll(BuildGraph(tasks), tasks, 1, DfsStart)

\* What a run gives its caller: "return cycles", or the exception.
Outcome(run) == IF run.raised # "" THEN Raise(run.raised) ELSE Ret(run.cycles)

\* detect_circular_dependencies(tasks): the list of cycle sets, or the exception.
detect_circular_dependencies(tasks) == Outcome(DetectRun(tasks))

\* ---------------------------------------------------- generate_explanation
\* components.get(name, 0) on the components of score_data ({} when missing).
Component(score_data, name) ==
    IF "components" \in DOMAIN score_data /\ name \in DOMAIN score_data.components
    THEN score_data.components[name]
    ELSE 0

\* The reasons list of generate_explanation, in the order it is built.
Reasons(strat, score_data) ==
    LET urgency == Component(score_data, "urgency")
        importance == Component(score_data, "importance")
        effort == Component(score_data, "effort")
        dependencies == Component(score_data, "dependencies")
    IN  (IF urgency >= 8 * Scale THEN <<"Due very soon or overdue">>
         ELSE IF urgency >= 6 * Scale THEN <<"Due within a week">> ELSE <<>>)
        \o (IF importance >= 8 * Scale THEN <<"High importance">>
            ELSE IF importance >= 6 * Scale THEN <<"Medium-high importance">> ELSE <<>>)
        \o (IF effort >= 8 * Scale THEN <<"Quick win (low effort)">> ELSE <<>>)
        \o (IF dependencies >= 7 * Scale THEN <<"Multiple tasks depend on this">>
            ELSE IF dependencies >= 4 * Scale THEN <<"Blocks other tasks">> ELSE <<>>)
        \o (IF strat = "fastest_wins" /\ effort >= 7 * Scale
            THEN <<"Prioritized as quick win">>
            ELSE IF strat = "high_impact" /\ importance >= 7 * Scale
            THEN <<"Prioritized for high impact">>
            ELSE IF strat = "deadline_driven" /\ urgency >= 7 * Scale
            THEN <<"Prioritized by deadline">> ELSE <<>>)

\* " . ".join(reasons): a string is the sequence of its pieces, the reasons
\* with the separator between them ("" is the empty sequence).
RECURSIVE Join(_)
Join(reasons) ==
    IF Len(reasons) = 0 THEN <<>>
    ELSE IF Len(reasons) = 1 THEN <<reasons[1]>>
    ELSE <<reasons[1], " . ">> \o Join(Tail(reasons))

\* Mutant: no fixed message when the reasons list is empty.
generate_explanation_nofallback(strat, score_data) == Join(Reasons(strat, score_data))

generate_explanation(strat, score_data) ==
    LET reasons == Reasons(strat, score_data)
    IN  IF reasons = <<>> THEN <<"Balanced priority across all factors">>
        ELSE Join(reasons)

\* ----------------------------------------------------------- tasks/views.py
\* "dependencies" of a normalized task: a falsy value (None, 0, "", [])
\* becomes [], another value that is no list becomes a list of itself.
Falsy(x) ==
    \/ x.k = "None"
    \/ x.k = "int" /\ x.n = 0
    \/ x.k = "num" /\ x.v = 0
    \/ x.k = "str" /\ x.s = ""
    \/ x.k = "bool" /\ ~x.b
    \/ x.k = "list" /\ x.items = <<>>
    \/ x.k = "dict" /\ DOMAIN x.d = {}

NormalizeDeps(x) ==
    LET deps == IF Falsy(x) THEN List(<<>>) ELSE x
    IN  IF IsList(deps) THEN deps ELSE List(<<deps>>)

\* One task of _normalize_tasks, the entry at position idx (0-based) of the input.
NormalizeTask(task, idx) ==
    LET id == IF "id" \in DOMAIN task.d THEN task.d.id ELSE PyInt(idx + 1)
        keys == DOMAIN task.d \cup
                {"id", "title", "due_date", "estimated_hours", "importance", "dependencies"}
    IN  Dict([key \in keys |->
            CASE key = "id" -> id
              [] key = "dependencies" -> NormalizeDeps(Get(task, "dependencies", List(<<>>)))
              [] key = "title" -> Get(task, "title", [k |-> "str", s |-> "Task", of |-> id])
              [] OTHER -> Get(task, key, None)])

\* _normalize_tasks(raw_tasks), over raw_tasks[1..n]: entries that are no dicts
\* are skipped.
RECURSIVE NormalizeUpTo(_, _)
NormalizeUpTo(raw_tasks, n) ==
    IF n = 0 THEN <<>>
    ELSE IF ~IsDict(raw_tasks[n]) THEN NormalizeUpTo(raw_tasks, n - 1)
    ELSE Append(NormalizeUpTo(raw_tasks, n - 1), NormalizeTask(raw_tasks[n], n - 1))

_normalize_tasks(raw_tasks) == NormalizeUpTo(raw_tasks, Len(raw_tasks))

\* enriched = task.copy() with the three result keys set.
Enrich(strat, task, score_data) ==
    Dict([key \in DOMAIN task.d \cup {"priority_score", "score_components", "explanation"} |->
            CASE key = "priority_score" -> score_data.score
              [] key = "score_components" -> score_data.components
              [] key = "explanation" -> generate_explanation(strat, score_data)
              [] OTHER -> task.d[key]])

\* The scoring loop of both handlers over tasks[1..n]: the lists of enriched
\* tasks it can build (several when a rounding falls on a tie).
RECURSIVE ScoreAll(_, _, _, _, _)
ScoreAll(strat, w, now, tasks, n) ==
    IF n = 0 THEN {<<>>}
    ELSE { Append(done, Enrich(strat, tasks[n], score_data)) :
           <<done, score_data>> \in ScoreAll(strat, w, now, tasks, n - 1)
                                    \X score_task(w, now, tasks[n], tasks) }

\* Mutant: a task is put before the tasks of equal score.
RECURSIVE SortByScore_unstable(_)
SortByScore_unstable(scored) ==
    IF Len(scored) = 0 THEN <<>>
    ELSE LET head == SortByScore_unstable(SubSeq(scored, 1, Len(scored) - 1))
             x == scored[Len(scored)]
             before == Cardinality({i \in 1..Len(head) :
                                       head[i].d.priority_score > x.d.priority_score})
         IN  SubSeq(head, 1, before) \o <<x>> \o SubSeq(head, before + 1, Len(head))

\* list.sort(key=priority_score or 0, reverse=True): stable, so tasks of equal
\* score keep their order.
RECURSIVE SortByScore(_)
SortByScore(scored) ==
    IF Len(scored) = 0 THEN <<>>
    ELSE LET head == SortByScore(SubSeq(scored, 1, Len(scored) - 1))
             x == scored[Len(scored)]
             before == Cardinality({i \in 1..Len(head) :
                                       head[i].d.priority_score >= x.d.priority_score})
         IN  SubSeq(head, 1, before) \o <<x>> \o SubSeq(head, before + 1, Len(head))

\* A request: [tasks |-> the "tasks" value, strategy |-> the "strategy" value];
\* a key may be missing.
Field(request, key, default) == IF key \in DOMAIN request THEN request[key] ELSE default

\* analyze_tasks(request): the responses it can return.
analyze_tasks(request, now) ==
    LET raw_tasks == Field(request, "tasks", List(<<>>))
        strat == Field(request, "strategy", "smart_balance")
    IN  IF ~IsList(raw_tasks) \/ raw_tasks.items = <<>>
        THEN {[status |-> 400, error |-> "No tasks provided"]}
        ELSE LET tasks == _normalize_tasks(raw_tasks.items)
                 cycles == detect_circular_dependencies(tasks)
             IN  IF cycles.raised
                 THEN {[status |-> 500, error |-> "Failed to analyze tasks",
                        details |-> cycles.exc]}
                 ELSE { [status |-> 200, strategy |-> strat, tasks |-> SortByScore(scored),
                         circular_dependencies |-> cycles.val] :
                        scored \in ScoreAll(strat, _get_weights(strat), now, tasks, Len(tasks)) }

\* json.loads on the text of the "tasks" query parameter: [k |-> "json", v |-> x]
\* is the text of the JSON value x, any other string is no JSON.
JsonLoads(x) == IF x.k = "json" THEN Ret(x.v) ELSE Raise("JSONDecodeError")

\* scored[:3]
Top3(scored) == SubSeq(scored, 1, IF Len(scored) < 3 THEN Len(scored) ELSE 3)

\* suggest_tasks(request): tasks from the body or the query string.
suggest_tasks(request, now) ==
    LET given == Field(request, "tasks", None)
        strat == Field(request, "strategy", "smart_balance")
    IN  IF Falsy(given)
        THEN {[status |-> 200, top_tasks |-> <<>>, message |-> "No tasks provided"]}
        ELSE LET loaded == IF given.k \in {"str", "json"} THEN JsonLoads(given) ELSE Ret(given)
             IN  IF loaded.raised
                 THEN {[status |-> 500, error |-> "Failed to suggest tasks",
                        details |-> loaded.exc]}
                 ELSE IF ~IsList(loaded.val)
                 THEN {[status |-> 400, error |-> "Invalid tasks format"]}
                 ELSE LET tasks == _normalize_tasks(loaded.val.items)
                      IN  { [status |-> 200, strategy |-> strat,
                             top_tasks |-> Top3(SortByScore(scored)),
                             count |-> Len(Top3(SortByScore(scored)))] :
                            scored \in ScoreAll(strat, _get_weights(strat), now, tasks, Len(tasks)) }

health_check == [status |-> 200, body |-> "ok"]

\* ---------------------------------------------------------------- inputs
StrategyNames ==
    {"smart_balance", "fastest_wins", "high_impact", "deadline_driven",
     "bogus", "", "Smart_Balance"}

Todays == {<<2026, 11, 2>>, <<2028, 2, 28>>}

Years(now) == (now[1] - YearSpan)..(now[1] + YearSpan)

\* Due dates for a direct call: every text YYYY-MM-DD of the years around
\* today, calendar date or not, every date object, and values of other types.
DueDateInputs(now) ==
    {None, PyInt(5), DateTime, Str("tomorrow"), Str(""), List(<<>>)}
    \cup {DateStr(y, m, d) : y \in Years(now), m \in 0..13, d \in 0..32}
    \cup {Date(y, m, d) : <<y, m, d>> \in
            {t \in Years(now) \X (1..12) \X (1..31) : IsCalendarDate(t[1], t[2], t[3])}}

Malformed ==
    {None, HugeInt, NaN, PosInf, NegInf, PyTrue, List(<<>>), Str("7"), Str(" 7 "),
     Str("2.5"), Str("-1"), Str("nan"), Str("inf"), Str("-inf"), Str("1e400"),
     Str("invalid"), Str("")}

\* Importance for a direct call: ints, floats on a grid of half hundredths
\* (every second one a rounding tie), thousandths above 5, and malformed values.
ImportanceInputs ==
    Malformed \cup {PyInt(n) : n \in -3..12}
    \cup {Num(h * (Cent \div 2)) : h \in -20..2200}
    \cup {Num(5 * Scale + j * (Scale \div 1000)) : j \in 0..10}

\* Hours for a direct call: ints, floats in tenths of an hour, malformed values.
HoursInputs ==
    Malformed \cup {PyInt(n) : n \in -5..40}
    \cup {Num(t * (Scale \div 10)) : t \in -10..330}

\* A task dict from the fields given (a function from keys to values).
Task(fields) == Dict(fields)

\* The dependents of task 1 in a direct call of calculate_dependency_score.
FanInDeps ==
    {List(<<>>), List(<<PyInt(1)>>), List(<<PyInt(1), PyInt(1)>>),
     List(<<PyInt(2)>>), List(<<PyInt(2), PyInt(1)>>)}

RECURSIVE FanInLists(_)
FanInLists(n) ==
    IF n = 0 THEN {<<>>}
    ELSE LET shorter == FanInLists(n - 1)
         IN  shorter \cup
             { Append(l, Task([id |-> PyInt(Len(l) + 1), dependencies |-> d])) :
               <<l, d>> \in {x \in shorter : Len(x) = n - 1} \X FanInDeps }

\* ... and lists with a malformed entry: a task without dependencies, one whose
\* dependencies are None, and an entry that is no dict.
MalformedTaskLists ==
    { <<Task([id |-> PyInt(2), dependencies |-> List(<<PyInt(1)>>)]), bad>> :
      bad \in {Task([id |-> PyInt(3)]), Task([id |-> PyInt(3), dependencies |-> None]),
               Str("oops"), None} }

\* Tasks for score_task: task 1 with the four scored fields drawn from small
\* sets, in a list with 0..4 dependents.
TaskDueDates(now) ==
    {None, Str("tomorrow")}
    \cup {DateStr(y, m, d) : y \in {now[1], now[1] + 1}, m \in 1..12, d \in {2, 17}}

TaskImportances ==
    {None, HugeInt, Str("invalid"), PyInt(1), PyInt(8), PyInt(10), PyInt(15),
     Num(5 * Scale + 4 * (Scale \div 1000)), Num(7 * Scale + 349 * (Scale \div 1000))}

TaskHours ==
    {None, HugeInt, PosInf, PyInt(-5), PyInt(2), PyInt(8), Num(Scale \div 2),
     Num(161 * (Scale \div 10)), Num(203 * (Scale \div 10))}

Dependents(n) ==
    [i \in 1..n |-> Task([id |-> PyInt(i + 1), dependencies |-> List(<<PyInt(1)>>)])]

ScoredTasks(now) ==
    { Task([id |-> PyInt(1), due_date |-> due, importance |-> imp,
            estimated_hours |-> hrs, dependencies |-> List(<<>>)]) :
      <<due, imp, hrs>> \in TaskDueDates(now) \X TaskImportances \X TaskHours }
    \cup {Task([title |-> Str("untitled")]), Str("oops"), None}

\* Identifiers are only hashed and compared for equality, so a task list is
\* taken up to renaming: its i-th task has identifier i, and 0 is an identifier
\* that is no task.  The dependencies are every sequence of identifiers,
\* repetitions, self-dependencies and unknown identifiers included.

\* The k declared dependencies of a list of n tasks, in the order of the list:
\* owner[j] is the task that declares the j-th one.
Owners(n, k) == {o \in [1..k -> 1..n] : \A j \in 1..(k - 1) : o[j] <= o[j + 1]}

\* The dependencies of task i: the targets of the edges it owns, in order.
DepsOf(i, owner, target) ==
    LET before == Cardinality({j \in DOMAIN owner : owner[j] < i})
        mine == Cardinality({j \in DOMAIN owner : owner[j] = i})
    IN  [j \in 1..mine |-> target[before + j]]

GraphTask(id, deps) ==
    Task([id |-> PyInt(id), dependencies |-> List([j \in 1..Len(deps) |-> PyInt(deps[j])])])

GraphList(n, owner, target) == [i \in 1..n |-> GraphTask(i, DepsOf(i, owner, target))]

\* Lists outside the contract of a well-formed graph: tasks named by title,
\* a task without dependencies, a repeated identifier, dependencies that are
\* no list or hold an unhashable value, an unhashable identifier, a non-dict.
OddLists ==
    { <<Task([title |-> Str("a"), dependencies |-> List(<<Str("b")>>)]),
        Task([title |-> Str("b"), dependencies |-> List(<<Str("a")>>)])>>,
      <<Task([id |-> PyInt(1)]), GraphTask(2, <<1, 2>>)>>,
      <<GraphTask(1, <<1>>), GraphTask(1, <<>>)>>,
      <<GraphTask(1, <<>>), GraphTask(1, <<1>>)>>,
      <<Task([id |-> None, dependencies |-> List(<<None>>)])>>,
      <<Task([id |-> PyInt(1), dependencies |-> None])>>,
      <<Task([id |-> PyInt(1), dependencies |-> List(<<List(<<>>)>>)])>>,
      <<Task([id |-> List(<<PyInt(1)>>), dependencies |-> List(<<>>)])>>,
      <<GraphTask(1, <<2>>), Str("oops")>> }

\* The permutations of 1..n, as sequences.
Perms(n) == {p \in [1..n -> 1..n] : \A i, j \in 1..n : p[i] = p[j] => i = j}

\* The ring 1 -> 2 -> .. -> n -> 1, its tasks listed in the order p.
RingList(n, p) == [i \in 1..n |-> GraphTask(p[i], <<(p[i] % n) + 1>>)]

\* The non-empty sequences of length up to n over S.
SeqsUpTo(S, n) == UNION {[1..m -> S] : m \in 1..n}

\* Entries of every shape: identifiers present, missing, null or unhashable;
\* dependencies missing, a list, a scalar (0 and "" included) or a list of an
\* unhashable value; an importance beyond the float range; entries that are
\* no dicts.
ShapeIds == {None, PyInt(1), PyInt(2), List(<<PyInt(1)>>)}
ShapeDeps ==
    {List(<<PyInt(1)>>), List(<<PyInt(2)>>), PyInt(0), PyInt(2), Str(""),
     List(<<List(<<>>)>>)}

ShapeEntries ==
    {Str("oops"), None, Task([importance |-> HugeInt]), Task([title |-> Str("t")])}
    \cup {Task([id |-> id]) : id \in ShapeIds}
    \cup {Task([dependencies |-> deps]) : deps \in ShapeDeps}
    \cup {Task([id |-> id, dependencies |-> deps]) : <<id, deps>> \in ShapeIds \X ShapeDeps}

\* The date text of the day k days after now.
RECURSIVE Roll(_, _, _)
Roll(y, m, d) ==
    IF d <= DaysInMonth(y, m) THEN DateStr(y, m, d)
    ELSE IF m = 12 THEN Roll(y + 1, 1, d - DaysInMonth(y, m))
    ELSE Roll(y, m + 1, d - DaysInMonth(y, m))

DateAfter(now, k) == Roll(now[1], now[2], now[3] + k)

\* Well-formed tasks to rank: the three tasks of the end-to-end test, a task
\* with no fields, and one whose scoring fails.
RankEntries(now) ==
    { Task([due_date |-> DateAfter(now, 0), importance |-> PyInt(10), estimated_hours |-> PyInt(2)]),
      Task([due_date |-> DateAfter(now, 30), importance |-> PyInt(4), estimated_hours |-> PyInt(1)]),
      Task([due_date |-> DateAfter(now, 7), importance |-> PyInt(9), estimated_hours |-> PyInt(8),
            dependencies |-> PyInt(1)]),
      Task([title |-> Str("t")]),
      Task([importance |-> HugeInt]) }

\* Component values for a direct call of generate_explanation: each threshold
\* (4, 6, 7, 8), the hundredth below it, and both ends of the range.
ExplainLevels == {c * Cent : c \in {0, 399, 400, 599, 600, 699, 700, 799, 800, 1000}}

\* Components records with some keys missing: the keys of K, all at value v.
PartialComponents(K, v) == [name \in K |-> v]

StrategyValues == DOMAIN strategies \cup {"bogus"}

Requests(now) ==
    { [tasks |-> List(l)] : l \in SeqsUpTo(ShapeEntries, MaxRaw) }
    \cup { [tasks |-> List(l), strategy |-> s] :
           <<l, s>> \in SeqsUpTo(RankEntries(now), MaxRanked) \X StrategyValues }
    \cup { [strategy |-> "bogus"], [tasks |-> List(<<>>)], [tasks |-> None],
           [tasks |-> Str("oops")], [tasks |-> Task([id |-> PyInt(1)])] }

\* GET requests carry the list in the body or as JSON text in the query string.
SuggestRequests(now) ==
    Requests(now)
    \cup { [tasks |-> [k |-> "json", v |-> List(l)], strategy |-> "high_impact"] :
           l \in SeqsUpTo(RankEntries(now), MaxRanked) }
    \cup { [tasks |-> [k |-> "json", v |-> PyInt(1)]] }

\* --------------------------------------------------------- specifications
Idle == [op |-> "idle"]

\* TaskScorer(strategy): __init__ stores the name and its weights.
Construct(s) ==
    /\ strategy = s
    /\ weights = _get_weights(s)

InitScore ==
    /\ \E s \in StrategyNames : Construct(s)
    /\ today \in Todays
    /\ call = Idle

CallUrgency ==
    /\ call = Idle
    /\ \E due_date \in DueDateInputs(today) :
         call' = [op |-> "calculate_urgency_score", due_date |-> due_date,
                  ret |-> calculate_urgency_score(due_date, today)]
    /\ UNCHANGED <<strategy, weights, today>>

CallImportance ==
    /\ call = Idle
    /\ \E importance \in ImportanceInputs :
         call' = [op |-> "calculate_importance_score", importance |-> importance,
                  ret |-> calculate_importance_score(importance)]
    /\ UNCHANGED <<strategy, weights, today>>

CallEffort ==
    /\ call = Idle
    /\ \E estimated_hours \in HoursInputs :
         call' = [op |-> "calculate_effort_score", estimated_hours |-> estimated_hours,
                  ret |-> calculate_effort_score(estimated_hours)]
    /\ UNCHANGED <<strategy, weights, today>>

CallDependency ==
    /\ call = Idle
    /\ \E all_tasks \in FanInLists(MaxFanIn) \cup MalformedTaskLists :
         call' = [op |-> "calculate_dependency_score", task_id |-> PyInt(1),
                  all_tasks |-> all_tasks,
                  ret |-> calculate_dependency_score(PyInt(1), all_tasks)]
    /\ UNCHANGED <<strategy, weights, today>>

CallScoreTask ==
    /\ call = Idle
    /\ \E task \in ScoredTasks(today), n \in 0..4 :
         LET all_tasks == <<task>> \o Dependents(n)
         IN  \E result \in score_task(weights, today, task, all_tasks) :
               call' = [op |-> "score_task", task |-> task, all_tasks |-> all_tasks,
                        ret |-> result]
    /\ UNCHANGED <<strategy, weights, today>>

\* The caller takes the result; the scorer is ready for the next call.
Return ==
    /\ call # Idle
    /\ call' = Idle
    /\ UNCHANGED <<strategy, weights, today>>

\* The four factor functions, called directly on a scorer of the default strategy.
InitFactors ==
    /\ Construct("smart_balance")
    /\ today \in Todays
    /\ call = Idle

NextFactors ==
    \/ CallUrgency
    \/ CallImportance
    \/ CallEffort
    \/ CallDependency
    \/ Return

SpecFactors == InitFactors /\ [][NextFactors]_vars

\* score_task on a scorer of any strategy name.
NextScore ==
    \/ CallScoreTask
    \/ Return

SpecScore == InitScore /\ [][NextScore]_vars

\* The call detect_circular_dependencies(tasks) with its final state and result.
Detect(tasks) ==
    LET run == DetectRun(tasks)
    IN  [op |-> "detect_circular_dependencies", tasks |-> tasks,
         run |-> run, ret |-> Outcome(run)]

CallDetect ==
    /\ call = Idle
    /\ \E tasks \in OddLists \cup {<<>>} : call' = Detect(tasks)
    /\ UNCHANGED <<strategy, weights, today>>

CallDetectGraph ==
    /\ call = Idle
    /\ \E n \in 1..MaxTasks, k \in 0..MaxEdges :
       \E owner \in Owners(n, k), target \in [1..k -> 0..MaxTasks] :
         call' = Detect(GraphList(n, owner, target))
    /\ UNCHANGED <<strategy, weights, today>>

CallDetectRing ==
    /\ call = Idle
    /\ \E n \in 2..MaxRing : \E p \in Perms(n) :
         call' = Detect(RingList(n, p))
    /\ UNCHANGED <<strategy, weights, today>>

\* detect_circular_dependencies, called directly on a scorer of the default strategy.
InitGraph ==
    /\ Construct("smart_balance")
    /\ today = <<2026, 11, 2>>
    /\ call = Idle

NextGraph ==
    \/ CallDetect
    \/ CallDetectGraph
    \/ CallDetectRing
    \/ Return

SpecGraph == InitGraph /\ [][NextGraph]_vars

AnalyzeTasks ==
    /\ call = Idle
    /\ \E request \in Requests(today) : \E response \in analyze_tasks(request, today) :
         call' = [op |-> "analyze_tasks", request |-> request, ret |-> response]
    /\ UNCHANGED <<strategy, weights, today>>

SuggestTasks ==
    /\ call = Idle
    /\ \E request \in SuggestRequests(today) : \E response \in suggest_tasks(request, today) :
         call' = [op |-> "suggest_tasks", request |-> request, ret |-> response]
    /\ UNCHANGED <<strategy, weights, today>>

HealthCheck ==
    /\ call = Idle
    /\ call' = [op |-> "health_check", ret |-> health_check]
    /\ UNCHANGED <<strategy, weights, today>>

\* The service: no state is kept between requests (each handler builds its
\* own TaskScorer); strategy and weights are those of a default scorer.
Init ==
    /\ Construct("smart_balance")
    /\ today = <<2026, 11, 2>>
    /\ call = Idle

Next ==
    \/ AnalyzeTasks
    \/ SuggestTasks
    \/ HealthCheck
    \/ Return

Spec == Init /\ [][Next]_vars

\* _normalize_tasks, called directly on the raw list of a request.
CallNormalize ==
    /\ call = Idle
    /\ \E raw_tasks \in SeqsUpTo(ShapeEntries, MaxRaw) \cup {<<>>} :
         call' = [op |-> "_normalize_tasks", raw_tasks |-> raw_tasks,
                  ret |-> _normalize_tasks(raw_tasks)]
    /\ UNCHANGED <<strategy, weights, today>>

InitNormalize ==
    /\ Construct("smart_balance")
    /\ today = <<2026, 11, 2>>
    /\ call = Idle

NextNormalize ==
    \/ CallNormalize
    \/ Return

SpecNormalize == InitNormalize /\ [][NextNormalize]_vars

\* generate_explanation, called directly on a scorer of any strategy name: on
\* a full components record, on one with keys missing, and on a score_data
\* without components.
CallExplain ==
    /\ call = Idle
    /\ \/ \E u, i, e, d \in ExplainLevels :
            LET score_data == [score |-> 0,
                               components |-> [urgency |-> u, importance |-> i,
                                               effort |-> e, dependencies |-> d]]
            IN  call' = [op |-> "generate_explanation", score_data |-> score_data,
                         ret |-> generate_explanation(strategy, score_data)]
       \/ \E K \in SUBSET {"urgency", "importance", "effort", "dependencies"},
             v \in {7 * Scale, 10 * Scale} :
            LET score_data == [score |-> 0, components |-> PartialComponents(K, v)]
            IN  call' = [op |-> "generate_explanation", score_data |-> score_data,
                         ret |-> generate_explanation(strategy, score_data)]
       \/ call' = [op |-> "generate_explanation", score_data |-> [score |-> 0],
                   ret |-> generate_explanation(strategy, [score |-> 0])]
    /\ UNCHANGED <<strategy, weights, today>>

InitExplain ==
    /\ \E s \in StrategyNames : Construct(s)
    /\ today = <<2026, 11, 2>>
    /\ call = Idle

NextExplain ==
    \/ CallExplain
    \/ Return

SpecExplain == InitExplain /\ [][NextExplain]_vars

\* ------------------------------------------------------------------ claims
\* The identifiers of the tasks of a list.
Ids(tasks) == {TaskId(tasks[n]) : n \in 1..Len(tasks)}

\* A list of dicts with pairwise distinct identifiers whose dependencies are lists.
IsGraph(tasks) ==
    /\ \A n \in 1..Len(tasks) :
          /\ IsDict(tasks[n])
          /\ Hashable(TaskId(tasks[n]))
          /\ "dependencies" \in DOMAIN tasks[n].d
          /\ IsList(tasks[n].d.dependencies)
          /\ \A j \in 1..Len(tasks[n].d.dependencies.items) :
                Hashable(tasks[n].d.dependencies.items[j])
    /\ \A n, m \in 1..Len(tasks) : TaskId(tasks[n]) = TaskId(tasks[m]) => n = m

\* The edges <<a, b>> between tasks: task a declares task b as a dependency.
Edges(tasks) ==
    LET ids == Ids(tasks)
    IN  UNION { { <<TaskId(tasks[n]), tasks[n].d.dependencies.items[j]>> :
                  j \in {i \in 1..Len(tasks[n].d.dependencies.items) :
                            tasks[n].d.dependencies.items[i] \in ids} } :
                n \in 1..Len(tasks) }

\* The tasks reached from the tasks of S by at most k more edges of E.
RECURSIVE Reach(_, _, _)
Reach(E, S, k) ==
    IF k = 0 THEN S
    ELSE Reach(E, S \cup {e[2] : e \in {x \in E : x[1] \in S}}, k - 1)

\* Task a lies on a directed cycle of the edges E over n tasks: it is reached
\* from one of its dependencies.
OnCycleOf(E, a, n) == a \in Reach(E, {e[2] : e \in {x \in E : x[1] = a}}, n)

OnCycle(tasks, a) == OnCycleOf(Edges(tasks), a, Len(tasks))

\* The dependency graph has a directed cycle.
Cyclic(tasks) ==
    LET E == Edges(tasks)
    IN  \E a \in {e[1] : e \in E} : OnCycleOf(E, a, Len(tasks))

\* C1: on a list with distinct identifiers and list dependencies the result is
\* empty if and only if the dependency graph has no directed cycle (a
\* self-dependency is one; an unknown identifier never makes one).
C1_EmptyIffAcyclic ==
    (call.op = "detect_circular_dependencies" /\ IsGraph(call.tasks)) =>
        /\ ~call.ret.raised
        /\ (call.ret.val = <<>>) <=> ~Cyclic(call.tasks)

\* C1 witness: a task whose only dependency is itself, next to a task that
\* depends on an unknown identifier, reported as one cycle.
C1_Witness ==
    /\ call.op = "detect_circular_dependencies"
    /\ call.tasks = <<GraphTask(1, <<0>>), GraphTask(2, <<2>>)>>
    /\ call.ret = Ret(<<{PyInt(2)}>>)

\* The graph is one simple ring of n >= 2 tasks: every task has exactly one
\* dependency, and following the dependencies from a task visits all tasks.
IsRing(tasks) ==
    /\ Len(tasks) >= 2
    /\ IsGraph(tasks)
    /\ \A n \in 1..Len(tasks) : Len(tasks[n].d.dependencies.items) = 1
    /\ \A a \in Ids(tasks) : Reach(Edges(tasks), {a}, Len(tasks) - 1) = Ids(tasks)

\* C2: on a ring of n >= 2 tasks, in any order of the list, the result is
\* exactly one cycle, the set of all n identifiers.
C2_RingIsOneCycle ==
    (call.op = "detect_circular_dependencies" /\ IsRing(call.tasks)) =>
        call.ret = Ret(<<Ids(call.tasks)>>)

\* C2 witness: a ring of three tasks whose list does not start where the ring
\* order does.
C2_Witness ==
    /\ call.op = "detect_circular_dependencies"
    /\ IsRing(call.tasks)
    /\ Len(call.tasks) = 3
    /\ TaskId(call.tasks[1]) = PyInt(3)
    /\ TaskId(call.tasks[2]) = PyInt(1)
    /\ call.ret = Ret(<<{PyInt(1), PyInt(2), PyInt(3)}>>)

\* C3: the cycle sets of the result are pairwise distinct.
C3_CyclesDistinct ==
    (call.op = "detect_circular_dependencies" /\ ~call.ret.raised) =>
        \A i, j \in 1..Len(call.ret.val) : call.ret.val[i] = call.ret.val[j] => i = j

\* C3 witness: the cycle {1, 2} met through two back edges (2 lists 1 twice)
\* and reported once.
C3_Witness ==
    /\ call.op = "detect_circular_dependencies"
    /\ call.tasks = <<GraphTask(1, <<2>>), GraphTask(2, <<1, 1>>)>>
    /\ call.ret = Ret(<<{PyInt(1), PyInt(2)}>>)

\* C4: a batch of N raw entries always yields N results: analyze_tasks on a
\* non-empty list of N entries answers with N scored tasks, malformed entries
\* included.
C4_NResults ==
    (/\ call.op = "analyze_tasks"
     /\ "tasks" \in DOMAIN call.request
     /\ IsList(call.request.tasks)
     /\ call.request.tasks.items # <<>>) =>
        /\ call.ret.status = 200
        /\ Len(call.ret.tasks) = Len(call.request.tasks.items)

Recognized == {"smart_balance", "fastest_wins", "high_impact", "deadline_driven"}

\* A due date the code can turn into a date: a date object, or the text of a
\* calendar date.
IsDueDate(x) == x.k \in {"date", "datestr"} /\ IsCalendarDate(x.y, x.m, x.d)

\* Whole days from today to a due date.
WholeDays(x) == Ordinal(x.y, x.m, x.d) - Ordinal(today[1], today[2], today[3])

InRange(v, lo, hi) == lo * Scale <= v /\ v <= hi * Scale

\* C5: every factor score stays in its documented range for every input:
\* urgency, effort and dependencies return a value in [0,10], importance a
\* value in [1,10]; no call raises.
C5_FactorRanges ==
    /\ call.op \in {"calculate_urgency_score", "calculate_effort_score",
                    "calculate_dependency_score"}
           => ~call.ret.raised /\ InRange(call.ret.val, 0, 10)
    /\ call.op = "calculate_importance_score"
           => ~call.ret.raised /\ InRange(call.ret.val, 1, 10)

\* C6: the score returned by score_task lies in [0,10] for every strategy name,
\* task and task list, and the weights of the scorer are non-negative and sum
\* to exactly 1.
C6_ScoreInRange ==
    /\ \A f \in DOMAIN weights : weights[f] >= 0
    /\ weights.urgency + weights.importance + weights.effort + weights.dependencies = 100
    /\ call.op = "score_task" => InRange(call.ret.score, 0, 10)

\* C6 witness: a task whose four components are all 10 has been scored 10.
C6_Witness ==
    /\ call.op = "score_task"
    /\ call.ret.score = 10 * Scale
    /\ call.ret.components.dependencies = 10 * Scale

\* C7 (as claimed): the score equals the weighted sum of the four values of the
\* returned components breakdown, rounded to 2 decimal places.
C7_ScoreOfReturnedComponents ==
    call.op = "score_task" =>
        LET c == call.ret.components
            sum == weights.urgency * c.urgency + weights.importance * c.importance
                   + weights.effort * c.effort + weights.dependencies * c.dependencies
        IN  call.ret.score \in {q * Cent : q \in Round2(sum, 100 * Cent)}

\* C7 (amended): the score equals the weighted sum of the four factor scores as
\* the factor functions return them (before the breakdown is rounded), rounded
\* to 2 decimal places; a result with an error has score 0 and components 0.
C7_ScoreOfFactorScores ==
    call.op = "score_task" =>
        IF "error" \in DOMAIN call.ret
        THEN /\ call.ret.score = 0
             /\ \A f \in DOMAIN call.ret.components : call.ret.components[f] = 0
        ELSE LET t == call.task
                 u == calculate_urgency_score(Get(t, "due_date", None), today).val
                 i == calculate_importance_score(Get(t, "importance", None)).val
                 e == calculate_effort_score(Get(t, "estimated_hours", None)).val
                 d == calculate_dependency_score(Get(t, "id", None), call.all_tasks).val
                 sum == weights.urgency * u + weights.importance * i
                        + weights.effort * e + weights.dependencies * d
             IN  /\ call.ret.score \in {q * Cent : q \in Round2(sum, 100 * Cent)}
                 /\ call.ret.components.urgency \in {q * Cent : q \in Round2(u, Cent)}
                 /\ call.ret.components.importance \in {q * Cent : q \in Round2(i, Cent)}
                 /\ call.ret.components.effort \in {q * Cent : q \in Round2(e, Cent)}
                 /\ call.ret.components.dependencies \in {q * Cent : q \in Round2(d, Cent)}

\* C7 witness: a scored task whose urgency is not a whole number of hundredths,
\* so that the breakdown shows a rounded value.
C7_Witness ==
    /\ call.op = "score_task"
    /\ "error" \notin DOMAIN call.ret
    /\ calculate_urgency_score(Get(call.task, "due_date", None), today).val % Cent # 0
    /\ call.ret.score > 0

\* C8: an unrecognized strategy name yields the smart_balance weights
\* (0.35, 0.30, 0.10, 0.25), each recognized name its own table row, and the
\* weights never change after construction.
C8_WeightsOfStrategy ==
    /\ strategy \notin Recognized =>
           weights = [urgency |-> 35, importance |-> 30, effort |-> 10, dependencies |-> 25]
    /\ strategy = "smart_balance" =>
           weights = [urgency |-> 35, importance |-> 30, effort |-> 10, dependencies |-> 25]
    /\ strategy = "fastest_wins" =>
           /\ weights = [urgency |-> 20, importance |-> 20, effort |-> 50, dependencies |-> 10]
           /\ weights.effort > 40
    /\ strategy = "high_impact" =>
           /\ weights = [urgency |-> 15, importance |-> 60, effort |-> 5, dependencies |-> 20]
           /\ weights.importance > 50
    /\ strategy = "deadline_driven" =>
           /\ weights = [urgency |-> 70, importance |-> 15, effort |-> 5, dependencies |-> 10]
           /\ weights.urgency > 60

C8_StrategyResolution ==
    /\ []C8_WeightsOfStrategy
    /\ [][weights' = weights /\ strategy' = strategy]_vars

\* C8 witness: a scorer built with an unrecognized name has scored a task.
C8_Witness ==
    /\ strategy \notin Recognized
    /\ call.op = "score_task"
    /\ "error" \notin DOMAIN call.ret

\* The tasks of a list that are dicts with a list (or no) dependencies value.
WellFormedTasks(all_tasks) ==
    \A n \in 1..Len(all_tasks) :
        /\ IsDict(all_tasks[n])
        /\ IsList(Get(all_tasks[n], "dependencies", List(<<>>)))

\* The number of OTHER tasks whose dependencies list holds the identifier.
OtherDependents(task_id, all_tasks) ==
    Cardinality({ n \in 1..Len(all_tasks) :
        /\ Get(all_tasks[n], "id", None) # task_id
        /\ \E j \in 1..Len(Get(all_tasks[n], "dependencies", List(<<>>)).items) :
               Get(all_tasks[n], "dependencies", List(<<>>)).items[j] = task_id })

\* C9: the dependency score depends only on the number n of other tasks that
\* list the identifier: 0 -> 0.0, 1 -> 4.0, 2 -> 7.0, n > 2 -> min(10, 7 + 1.5 (n - 2)).
C9_DependencyPolicy ==
    (call.op = "calculate_dependency_score" /\ WellFormedTasks(call.all_tasks)) =>
        LET n == OtherDependents(call.task_id, call.all_tasks)
            v == call.ret.val
        IN  /\ ~call.ret.raised
            /\ n = 0 => v = 0
            /\ n = 1 => v = 4 * Scale
            /\ n = 2 => v = 7 * Scale
            /\ n > 2 => /\ 2 * v <= 20 * Scale
                        /\ 2 * v <= 14 * Scale + 3 * Scale * (n - 2)
                        /\ (2 * v = 20 * Scale \/ 2 * v = 14 * Scale + 3 * Scale * (n - 2))

\* C10: the urgency breakpoints on d, the whole days from today to the due date,
\* and exactly 5.0 for a missing, unparsable or wrong-typed due date.
C10_UrgencyPolicy ==
    call.op = "calculate_urgency_score" =>
        LET v == call.ret.val
        IN  /\ ~call.ret.raised
            /\ ~IsDueDate(call.due_date) => v = 5 * Scale
            /\ IsDueDate(call.due_date) =>
                   LET d == WholeDays(call.due_date)
                       decay == 60 * Scale - (d - 30) * Scale   \* 30 * (2 - (d - 30) / 30)
                   IN  /\ d < 0 => v = 10 * Scale
                       /\ d >= 0 => v < 10 * Scale
                       /\ d = 0 => 2 * v = 19 * Scale
                       /\ d = 1 => v = 9 * Scale
                       /\ d \in 2..3 => v = 8 * Scale
                       /\ d \in 4..7 => v = 6 * Scale
                       /\ d \in 8..14 => v = 4 * Scale
                       /\ d \in 15..30 => v = 2 * Scale
                       /\ d > 30 => 30 * v = (IF decay > 0 THEN decay ELSE 0)

\* C10 witness: a due date more than 30 days away whose urgency has decayed
\* below 2 without reaching 0.
C10_Witness ==
    /\ call.op = "calculate_urgency_score"
    /\ IsDueDate(call.due_date)
    /\ WholeDays(call.due_date) > 30
    /\ call.ret.val > 0
    /\ call.ret.val < 2 * Scale

\* The position in the normalized list of the raw entry at position n (a dict):
\* the entries that are no dicts are left out.
Kept(raw_tasks, n) == Cardinality({m \in 1..n : IsDict(raw_tasks[m])})

\* A scalar dependency value: one identifier, an int or a string.
IsScalarId(x) == x.k \in {"int", "str"}

\* C11: after _normalize_tasks every task has a non-null identifier and a list
\* of dependencies; a scalar dependency value d (0 and "" included) has become
\* the list [d]; a task without 'id' has its 1-based position as identifier.
C11_Normalized ==
    call.op = "_normalize_tasks" =>
        \A n \in 1..Len(call.raw_tasks) :
            IsDict(call.raw_tasks[n]) =>
                LET raw == call.raw_tasks[n]
                    task == call.ret[Kept(call.raw_tasks, n)]
                IN  /\ task.d.id # None
                    /\ IsList(task.d.dependencies)
                    /\ ("dependencies" \in DOMAIN raw.d /\ IsScalarId(raw.d.dependencies)) =>
                           task.d.dependencies = List(<<raw.d.dependencies>>)
                    /\ "id" \notin DOMAIN raw.d => task.d.id = PyInt(n)

\* The explicitly supplied identifiers of a raw list are pairwise distinct.
ExplicitIdsDistinct(raw_tasks) ==
    \A n, m \in 1..Len(raw_tasks) :
        (/\ IsDict(raw_tasks[n]) /\ "id" \in DOMAIN raw_tasks[n].d
         /\ IsDict(raw_tasks[m]) /\ "id" \in DOMAIN raw_tasks[m].d
         /\ raw_tasks[n].d.id = raw_tasks[m].d.id) => n = m

\* C17: if the explicitly supplied identifiers of a raw list are pairwise
\* distinct, the identifiers of the normalized tasks are pairwise distinct.
C17_IdsStayUnique ==
    (call.op = "_normalize_tasks" /\ ExplicitIdsDistinct(call.raw_tasks)) =>
        \A n, m \in 1..Len(call.ret) : call.ret[n].d.id = call.ret[m].d.id => n = m

\* The task a scored task was made from: the scored task without its result keys.
Unscored(task) ==
    Dict([key \in DOMAIN task.d \ {"priority_score", "score_components", "explanation"} |->
            task.d[key]])

\* C12: the 'tasks' array of analyze_tasks is ordered by priority_score
\* descending and holds each scored task exactly once, tasks of equal score in
\* their input order: it is the list of normalized tasks under a permutation
\* that never moves a task in front of an earlier one of equal score.
C12_SortedStable ==
    (call.op = "analyze_tasks" /\ call.ret.status = 200) =>
        LET out == call.ret.tasks
            tasks == _normalize_tasks(call.request.tasks.items)
            N == Len(tasks)
        IN  /\ Len(out) = N
            /\ \A i \in 1..(N - 1) : out[i].d.priority_score >= out[i + 1].d.priority_score
            /\ \E p \in Perms(N) :
                  /\ \A i \in 1..N : Unscored(out[i]) = tasks[p[i]]
                  /\ \A i, j \in 1..N :
                        (i < j /\ out[i].d.priority_score = out[j].d.priority_score)
                            => p[i] < p[j]

\* C12 witness: three tasks of which the last has the highest score and the
\* first two have equal scores: the answer lists the third, the first, the second.
C12_Witness ==
    /\ call.op = "analyze_tasks"
    /\ call.ret.status = 200
    /\ Len(call.ret.tasks) = 3
    /\ call.ret.tasks[1].d.id = PyInt(3)
    /\ call.ret.tasks[2].d.id = PyInt(1)
    /\ call.ret.tasks[3].d.id = PyInt(2)
    /\ call.ret.tasks[1].d.priority_score > call.ret.tasks[2].d.priority_score
    /\ call.ret.tasks[2].d.priority_score = call.ret.tasks[3].d.priority_score

\* The tags of generate_explanation, by what they are about.
UrgencyTags == {"Due very soon or overdue", "Due within a week"}
ImportanceTags == {"High importance", "Medium-high importance"}
EffortTags == {"Quick win (low effort)"}
DependencyTags == {"Multiple tasks depend on this", "Blocks other tasks"}
StrategyTags ==
    {"Prioritized as quick win", "Prioritized for high impact", "Prioritized by deadline"}

\* How many pieces of a text are tags of the set T.
TagCount(text, T) == Cardinality({n \in 1..Len(text) : text[n] \in T})

\* The value generate_explanation reads for a component: 0 when it is missing.
Read(score_data, name) ==
    IF "components" \in DOMAIN score_data /\ name \in DOMAIN score_data.components
    THEN score_data.components[name]
    ELSE 0

\* C13: generate_explanation never returns an empty string; it returns the
\* fixed balanced-priority message exactly when no component threshold
\* (urgency >= 6, importance >= 6, effort >= 8, dependencies >= 4) and no
\* strategy-specific threshold is met, and otherwise tags joined by the
\* separator: one tag for each factor whose threshold is met and for the
\* strategy whose threshold is met, never two for the same.
C13_Explanation ==
    call.op = "generate_explanation" =>
        LET text == call.ret
            urgency == Read(call.score_data, "urgency")
            importance == Read(call.score_data, "importance")
            effort == Read(call.score_data, "effort")
            dependencies == Read(call.score_data, "dependencies")
            specific ==
                \/ strategy = "fastest_wins" /\ effort >= 7 * Scale
                \/ strategy = "high_impact" /\ importance >= 7 * Scale
                \/ strategy = "deadline_driven" /\ urgency >= 7 * Scale
            none == /\ urgency < 6 * Scale /\ importance < 6 * Scale
                    /\ effort < 8 * Scale /\ dependencies < 4 * Scale
                    /\ ~specific
        IN  /\ text # <<>>
            /\ \A n \in 1..Len(text) : text[n] # ""
            /\ (text = <<"Balanced priority across all factors">>) <=> none
            /\ ~none =>
                 /\ Len(text) % 2 = 1
                 /\ \A n \in 1..Len(text) :
                       IF n % 2 = 0 THEN text[n] = " . "
                       ELSE text[n] \in UrgencyTags \cup ImportanceTags \cup EffortTags
                                        \cup DependencyTags \cup StrategyTags
                 /\ TagCount(text, UrgencyTags) = (IF urgency >= 6 * Scale THEN 1 ELSE 0)
                 /\ TagCount(text, ImportanceTags) = (IF importance >= 6 * Scale THEN 1 ELSE 0)
                 /\ TagCount(text, EffortTags) = (IF effort >= 8 * Scale THEN 1 ELSE 0)
                 /\ TagCount(text, DependencyTags) = (IF dependencies >= 4 * Scale THEN 1 ELSE 0)
                 /\ TagCount(text, StrategyTags) = (IF specific THEN 1 ELSE 0)

\* C13 witness: under fastest_wins an effort of 7, below every component
\* threshold, is explained by the strategy tag alone.
C13_Witness ==
    /\ call.op = "generate_explanation"
    /\ strategy = "fastest_wins"
    /\ "components" \in DOMAIN call.score_data
    /\ call.score_data.components =
           [urgency |-> 0, importance |-> 0, effort |-> 7 * Scale, dependencies |-> 0]
    /\ call.ret = <<"Prioritized as quick win">>

\* C14: detect_circular_dependencies comes to an end on every task list
\* (cycles, self-dependencies and unknown identifiers included): dfs is
\* entered at most once with each identifier, so at most once for each task
\* and each declared dependency, and when the function returns its
\* recursion-stack set is empty.
C14_EnteredOnce ==
    call.op = "detect_circular_dependencies" =>
        LET entered == call.run.entered
        IN  /\ \A i, j \in 1..Len(entered) : entered[i] = entered[j] => i = j
            /\ {entered[i] : i \in 1..Len(entered)} = call.run.visited
            /\ ~call.ret.raised => call.run.rec_stack = {}

\* C14 witness: task 1 depends on itself, on task 2 and on an unknown
\* identifier, task 2 depends on task 1: dfs is entered with 1, 2 and the
\* unknown identifier, once each, and the stack is empty at the end.
C14_Witness ==
    /\ call.op = "detect_circular_dependencies"
    /\ call.tasks = <<GraphTask(1, <<1, 2, 0>>), GraphTask(2, <<1>>)>>
    /\ call.run.entered = <<PyInt(1), PyInt(2), PyInt(0)>>
    /\ call.run.rec_stack = {}
    /\ call.ret = Ret(<<{PyInt(1)}, {PyInt(1), PyInt(2)}>>)

\* C15: on a list with distinct identifiers every task that lies on a directed
\* dependency cycle is a member of at least one reported cycle set.
C15_CycleTasksReported ==
    (call.op = "detect_circular_dependencies" /\ IsGraph(call.tasks)) =>
        /\ ~call.ret.raised
        /\ \A a \in Ids(call.tasks) :
              OnCycle(call.tasks, a) =>
                  \E i \in 1..Len(call.ret.val) : a \in call.ret.val[i]

\* The dependency graph of a list has the edge a -> b: the task of identifier
\* a (the last one, if several have it) lists b.
HasEdge(tasks, a, b) ==
    \E n \in 1..Len(tasks) :
        /\ TaskId(tasks[n]) = a
        /\ \A m \in (n + 1)..Len(tasks) : TaskId(tasks[m]) # a
        /\ "dependencies" \in DOMAIN tasks[n].d
        /\ IsList(tasks[n].d.dependencies)
        /\ \E j \in 1..Len(tasks[n].d.dependencies.items) :
               tasks[n].d.dependencies.items[j] = b

\* C is the vertex set of a directed cycle: its members can be ordered so that
\* each one declares the next as a dependency and the last declares the first.
IsCycleSet(tasks, C) ==
    LET n == Cardinality(C)
    IN  /\ n > 0
        /\ \E p \in [1..n -> C] :
              /\ \A i \in 1..n : HasEdge(tasks, p[i], p[(i % n) + 1])
              /\ \A i, j \in 1..n : p[i] = p[j] => i = j

\* C16: every reported set is the vertex set of a directed cycle of the
\* dependency graph, all its members are identifiers of tasks of the list, and
\* path.index(neighbor) never fails.
C16_CyclesGenuine ==
    call.op = "detect_circular_dependencies" =>
        /\ call.run.raised # "ValueError"
        /\ ~call.ret.raised =>
              \A i \in 1..Len(call.ret.val) :
                  /\ call.ret.val[i] \subseteq Ids(call.tasks)
                  /\ IsCycleSet(call.tasks, call.ret.val[i])

\* C16 witness: the ring 1 -> 2 -> 3 -> 1 whose last task also depends on
\* itself: both cycles are reported, each a genuine one.
C16_Witness ==
    /\ call.op = "detect_circular_dependencies"
    /\ call.tasks = <<GraphTask(1, <<2>>), GraphTask(2, <<3>>), GraphTask(3, <<1, 3>>)>>
    /\ call.ret = Ret(<<{PyInt(1), PyInt(2), PyInt(3)}, {PyInt(3)}>>)

=============================================================================
